---- MODULE Spec2Model ----
(***************************************************************************)
(* helmfile-next-version: the concurrent update-detection engine.          *)
(*                                                                         *)
(* Strings whose content the code inspects (chart references, version      *)
(* strings) are sequences of one-character strings, so that TrimPrefix,    *)
(* HasPrefix and the semantic-version parser are computed, not assumed.    *)
(***************************************************************************)
EXTENDS Integers, Sequences, FiniteSets, TLC

(***************************************************************************)
(* Bounds                                                                  *)
(***************************************************************************)
MaxReleases == 2

(***************************************************************************)
(* Strings                                                                 *)
(***************************************************************************)
Digit == {"0", "1", "2", "3"}

Letter == {"a", "b", "i", "m", "n", "v", "x"}

DigitVal == ("0" :> 0) @@ ("1" :> 1) @@ ("2" :> 2) @@ ("3" :> 3)

\* byte values, for the lexical comparison of identifiers
CharRank ==
    ("-" :> 45) @@ ("0" :> 48) @@ ("1" :> 49) @@ ("2" :> 50) @@ ("3" :> 51) @@
    ("a" :> 97) @@ ("b" :> 98) @@ ("i" :> 105) @@ ("m" :> 109) @@
    ("n" :> 110) @@ ("v" :> 118) @@ ("x" :> 120)

HasPrefix(s, p) ==
    /\ Len(s) >= Len(p)
    /\ SubSeq(s, 1, Len(p)) = p

TrimPrefix(s, p) ==
    IF HasPrefix(s, p) THEN SubSeq(s, Len(p) + 1, Len(s)) ELSE s

RECURSIVE SkipDigits(_, _)
SkipDigits(s, p) ==
    IF p <= Len(s) /\ s[p] \in Digit THEN SkipDigits(s, p + 1) ELSE p

RECURSIVE ParseUint(_)
ParseUint(s) ==
    IF s = <<>> THEN 0
    ELSE 10 * ParseUint(SubSeq(s, 1, Len(s) - 1)) + DigitVal[s[Len(s)]]

\* index of the first occurrence of c in s at or after p, Len(s)+1 if none
RECURSIVE IndexFrom(_, _, _)
IndexFrom(s, c, p) ==
    IF p > Len(s) THEN Len(s) + 1
    ELSE IF s[p] = c THEN p
    ELSE IndexFrom(s, c, p + 1)

\* strings.Split(s, "."): the dot-separated parts of s
RECURSIVE SplitDots(_)
SplitDotsAt(s, d) ==
    IF d > Len(s) THEN <<s>>
    ELSE <<SubSeq(s, 1, d - 1)>> \o SplitDots(SubSeq(s, d + 1, Len(s)))

SplitDots(s) == SplitDotsAt(s, IndexFrom(s, ".", 1))

ContainsOnly(s, allowed) == \A k \in 1..Len(s) : s[k] \in allowed

(***************************************************************************)
(* Semantic versions: the parser and the ordering HasUpdate relies on      *)
(***************************************************************************)
IdentChar == Digit \cup Letter \cup {"-"}

\* every identifier is non-empty and over [0-9A-Za-z-]
IdentsOk(parts) ==
    \A k \in 1..Len(parts) :
        /\ parts[k] # <<>>
        /\ ContainsOnly(parts[k], IdentChar)

\* no numeric identifier of more than one digit starts with a zero
NoLeadingZero(parts) ==
    \A k \in 1..Len(parts) :
        ContainsOnly(parts[k], Digit) => ~(Len(parts[k]) > 1 /\ parts[k][1] = "0")

ValidPrerelease(pre) ==
    /\ IdentsOk(SplitDots(pre))
    /\ NoLeadingZero(SplitDots(pre))

ValidMetadata(meta) == IdentsOk(SplitDots(meta))

InvalidSemVer ==
    [ok |-> FALSE, major |-> 0, minor |-> 0, patch |-> 0, pre |-> <<>>, metadata |-> <<>>]

\* what follows the numbers: (-PRE)?(+META)?, plus being the place of the
\* first "+" in rest
ParseExtras(major, minor, patch, rest, plus) ==
    IF rest = <<>>
    THEN [ok |-> TRUE, major |-> major, minor |-> minor, patch |-> patch,
          pre |-> <<>>, metadata |-> <<>>]
    ELSE IF rest[1] = "-"
    THEN IF /\ ValidPrerelease(SubSeq(rest, 2, plus - 1))
            /\ plus <= Len(rest) => ValidMetadata(SubSeq(rest, plus + 1, Len(rest)))
         THEN [ok |-> TRUE, major |-> major, minor |-> minor, patch |-> patch,
               pre |-> SubSeq(rest, 2, plus - 1),
               metadata |-> SubSeq(rest, plus + 1, Len(rest))]
         ELSE InvalidSemVer
    ELSE IF plus = 1 /\ ValidMetadata(SubSeq(rest, 2, Len(rest)))
    THEN [ok |-> TRUE, major |-> major, minor |-> minor, patch |-> patch,
          pre |-> <<>>, metadata |-> SubSeq(rest, 2, Len(rest))]
    ELSE InvalidSemVer

ParseRest(major, minor, patch, rest) ==
    ParseExtras(major, minor, patch, rest, IndexFrom(rest, "+", 1))

\* a "." followed by a digit starts at p
DotDigitAt(s, p) == p + 1 <= Len(s) /\ s[p] = "." /\ s[p + 1] \in Digit

\* the number in s[from..to-1], then the rest of s from to
ParsePatchEnd(s, major, minor, p2, p3) ==
    ParseRest(major, minor, ParseUint(SubSeq(s, p2 + 1, p3 - 1)), SubSeq(s, p3, Len(s)))

ParsePatch(s, major, minor, p2) ==
    IF DotDigitAt(s, p2)
    THEN ParsePatchEnd(s, major, minor, p2, SkipDigits(s, p2 + 1))
    ELSE ParseRest(major, minor, 0, SubSeq(s, p2, Len(s)))

ParseMinorEnd(s, major, p1, p2) ==
    ParsePatch(s, major, ParseUint(SubSeq(s, p1 + 1, p2 - 1)), p2)

ParseMinor(s, major, p1) ==
    IF DotDigitAt(s, p1)
    THEN ParseMinorEnd(s, major, p1, SkipDigits(s, p1 + 1))
    ELSE ParseRest(major, 0, 0, SubSeq(s, p1, Len(s)))

ParseMajorEnd(s, p0, p1) ==
    IF p1 = p0 THEN InvalidSemVer
    ELSE ParseMinor(s, ParseUint(SubSeq(s, p0, p1 - 1)), p1)

ParseMajor(s, p0) == ParseMajorEnd(s, p0, SkipDigits(s, p0))

\* semver.NewVersion: v?MAJOR(.MINOR)?(.PATCH)?(-PRE)?(+META)?
NewVersion(s) == ParseMajor(s, IF HasPrefix(s, <<"v">>) THEN 2 ELSE 1)

CompareNat(a, b) == IF a < b THEN -1 ELSE IF a > b THEN 1 ELSE 0

\* byte-wise comparison of two strings
RECURSIVE CompareStr(_, _)
CompareStr(a, b) ==
    IF a = <<>> /\ b = <<>> THEN 0
    ELSE IF a = <<>> THEN -1
    ELSE IF b = <<>> THEN 1
    ELSE IF CharRank[a[1]] # CharRank[b[1]]
         THEN CompareNat(CharRank[a[1]], CharRank[b[1]])
    ELSE CompareStr(Tail(a), Tail(b))

\* one pre-release identifier against another; <<>> stands for "no more parts"
ComparePrePart(a, b) ==
    IF a = b THEN 0
    ELSE IF a = <<>> THEN -1
    ELSE IF b = <<>> THEN 1
    ELSE IF ContainsOnly(a, Digit) /\ ContainsOnly(b, Digit)
         THEN CompareNat(ParseUint(a), ParseUint(b))
    ELSE IF ContainsOnly(a, Digit) THEN -1
    ELSE IF ContainsOnly(b, Digit) THEN 1
    ELSE CompareStr(a, b)

HeadOrNone(parts) == IF parts = <<>> THEN <<>> ELSE Head(parts)

TailOrNone(parts) == IF parts = <<>> THEN <<>> ELSE Tail(parts)

RECURSIVE ComparePreParts(_, _)
ComparePrePartsFrom(d, as, bs) ==
    IF d # 0 THEN d ELSE ComparePreParts(TailOrNone(as), TailOrNone(bs))

ComparePreParts(as, bs) ==
    IF as = <<>> /\ bs = <<>> THEN 0
    ELSE ComparePrePartsFrom(ComparePrePart(HeadOrNone(as), HeadOrNone(bs)), as, bs)

ComparePrerelease(a, b) ==
    IF a = b THEN 0
    ELSE IF a = <<>> THEN 1
    ELSE IF b = <<>> THEN -1
    ELSE ComparePreParts(SplitDots(a), SplitDots(b))

\* Version.Compare: major, minor, patch, then pre-release; metadata ignored
Compare(x, y) ==
    IF x.major # y.major THEN CompareNat(x.major, y.major)
    ELSE IF x.minor # y.minor THEN CompareNat(x.minor, y.minor)
    ELSE IF x.patch # y.patch THEN CompareNat(x.patch, y.patch)
    ELSE ComparePrerelease(x.pre, y.pre)

\* a variant that also accepts an equal version
LessThanOrEqual(x, y) == Compare(x, y) <= 0

LessThan(x, y) == Compare(x, y) < 0

(***************************************************************************)
(* Data model                                                              *)
(***************************************************************************)
\* *bool: unset (nil), or a pointer to true or to false
Unset == "unset"

InstalledValues == {Unset, "true", "false"}

MkRelease(name, chart, version, installed) ==
    [Name |-> name, Chart |-> chart, Version |-> version, Installed |-> installed]

\* *ReleaseComparer: the nil pointer, or a pointer to a comparer
NilComparer == [nil |-> TRUE]

MkComparer(current, latest) ==
    [nil |-> FALSE, Current |-> current, Latest |-> latest]

(***************************************************************************)
(* ReleaseComparer.HasUpdate                                               *)
(*   result    the value returned                                          *)
(*   panicked  the call dereferenced a nil receiver                        *)
(*   parses    number of semver.NewVersion calls made                      *)
(*   logged    number of log.Printf lines written                          *)
(***************************************************************************)
NoUpdate(parses, logged) ==
    [result |-> FALSE, panicked |-> FALSE, parses |-> parses, logged |-> logged]

\* a variant that panics when a version does not parse
CompareSemversOrPanic(currentSemver, latestSemver) ==
    IF ~currentSemver.ok \/ ~latestSemver.ok
    THEN [result |-> FALSE, panicked |-> TRUE, parses |-> 2, logged |-> 0]
    ELSE [result |-> LessThan(currentSemver, latestSemver),
          panicked |-> FALSE, parses |-> 2, logged |-> 0]

\* lines 73-84: both semver.NewVersion results in hand
CompareSemvers(currentSemver, latestSemver) ==
    IF ~currentSemver.ok THEN NoUpdate(1, 1)
    ELSE IF ~latestSemver.ok THEN NoUpdate(2, 1)
    ELSE [result |-> LessThan(currentSemver, latestSemver),
          panicked |-> FALSE, parses |-> 2, logged |-> 0]

\* lines 68-84: the two versions with their "v" prefix trimmed
CompareVersions(currentVersion, latestVersion) ==
    IF currentVersion = latestVersion THEN NoUpdate(0, 0)
    ELSE CompareSemvers(NewVersion(currentVersion), NewVersion(latestVersion))

\* a variant that trims the marker from the current version only
HasUpdateTrimCurrentOnly(rc) ==
    IF rc.nil
    THEN [result |-> FALSE, panicked |-> TRUE, parses |-> 0, logged |-> 0]
    ELSE CompareVersions(TrimPrefix(rc.Current.Version, <<"v">>), rc.Latest.Version)

HasUpdate(rc) ==
    IF rc.nil
    THEN [result |-> FALSE, panicked |-> TRUE, parses |-> 0, logged |-> 0]
    ELSE CompareVersions(TrimPrefix(rc.Current.Version, <<"v">>),
                         TrimPrefix(rc.Latest.Version, <<"v">>))

(***************************************************************************)
(* The registry behind "helm search repo <chart> --output yaml"           *)
(***************************************************************************)
V120 == <<"1", ".", "2", ".", "0">>

V130 == <<"1", ".", "3", ".", "0">>

Vv120 == <<"v", "1", ".", "2", ".", "0">>

Vmain == <<"m", "a", "i", "n">>

V1x == <<"1", ".", "x">>

ChartRA == <<"r", "/", "a">>

ChartRB == <<"r", "/", "b">>

ChartRN == <<"r", "/", "n">>

ChartRX == <<"r", "/", "x">>

ChartRG == <<"r", "/", "g">>

ChartLocalDot == <<".", "/", "b">>

ChartLocalUp == <<".", ".", "/", "b">>

ChartLocalAbs == <<"/", "b">>

MkChartInfo(name, version, installed) ==
    [Name |-> name, Version |-> version, Installed |-> installed]

\* kind "exit": the helm process failed; "garbage": output that is not the
\* expected YAML; "list": the records found, best match first
SearchRepo(chart) ==
    CASE chart = ChartRA ->
            [kind |-> "list",
             charts |-> <<MkChartInfo(ChartRA, V130, Unset),
                          MkChartInfo(<<"r", "/", "a", "a">>, V120, Unset)>>]
      [] chart = ChartRB ->
            [kind |-> "list", charts |-> <<MkChartInfo(ChartRB, V130, "true")>>]
      [] chart = ChartRN ->
            [kind |-> "list",
             charts |-> <<MkChartInfo(<<"r", "/", "n", "n">>, V1x, "false")>>]
      [] chart = ChartRX -> [kind |-> "exit", charts |-> <<>>]
      [] chart = ChartRG -> [kind |-> "garbage", charts |-> <<>>]
      [] OTHER -> [kind |-> "list", charts |-> <<>>]

(***************************************************************************)
(* Error values: the set of things the error's message mentions; the nil   *)
(* error mentions nothing.                                                 *)
(***************************************************************************)
NoError == {}

\* fmt.Errorf("failed to search for chart %s: %w", release.Chart, err)
SearchError(chart) == {<<"search", chart>>}

\* fmt.Errorf("failed to unmarshal YAML data: %w", err)
UnmarshalError == {<<"unmarshal">>}

\* fmt.Errorf("chart %s not found", release.Chart)
NotFoundError(chart) == {<<"notfound", chart>>}

\* fmt.Errorf("failed to get release comparer for release %v: %v", name, e)
ReleaseError(name, e) == {<<"release", name>>} \cup e

\* errors.Join: nil arguments are dropped, nil if nothing is left
Join(a, b) == a \cup b

(***************************************************************************)
(* UpdateManager.GetReleaseComparer                                        *)
(*   searched  whether the external search was run                         *)
(***************************************************************************)
\* a variant that does not know the "../" prefix
IsLocalChartNoParent(chart) ==
    \/ HasPrefix(chart, <<"/">>)
    \/ HasPrefix(chart, <<".", "/">>)

IsLocalChart(chart) ==
    \/ HasPrefix(chart, <<"/">>)
    \/ HasPrefix(chart, <<".", "/">>)
    \/ HasPrefix(chart, <<".", ".", "/">>)

\* a variant that takes the whole of Latest from the registry record
GetReleaseComparerRecordName(decl) ==
    LET release == IF decl.Installed = Unset
                   THEN [decl EXCEPT !.Installed = "true"]
                   ELSE decl
        output == SearchRepo(release.Chart)
    IN  IF IsLocalChart(release.Chart)
        THEN [comparer |-> MkComparer(release, release),
              err |-> NoError, searched |-> FALSE]
        ELSE IF output.kind = "exit"
        THEN [comparer |-> NilComparer,
              err |-> SearchError(release.Chart), searched |-> TRUE]
        ELSE IF output.kind = "garbage"
        THEN [comparer |-> NilComparer,
              err |-> UnmarshalError, searched |-> TRUE]
        ELSE IF Len(output.charts) = 0
        THEN [comparer |-> NilComparer,
              err |-> NotFoundError(release.Chart), searched |-> TRUE]
        ELSE [comparer |->
                  MkComparer(release,
                             MkRelease(output.charts[1].Name,
                                       output.charts[1].Name,
                                       output.charts[1].Version,
                                       output.charts[1].Installed)),
              err |-> NoError, searched |-> TRUE]

GetReleaseComparer(decl) ==
    LET release == IF decl.Installed = Unset
                   THEN [decl EXCEPT !.Installed = "true"]
                   ELSE decl
        output == SearchRepo(release.Chart)
    IN  IF IsLocalChart(release.Chart)
        THEN [comparer |-> MkComparer(release, release),
              err |-> NoError, searched |-> FALSE]
        ELSE IF output.kind = "exit"
        THEN [comparer |-> NilComparer,
              err |-> SearchError(release.Chart), searched |-> TRUE]
        ELSE IF output.kind = "garbage"
        THEN [comparer |-> NilComparer,
              err |-> UnmarshalError, searched |-> TRUE]
        ELSE IF Len(output.charts) = 0
        THEN [comparer |-> NilComparer,
              err |-> NotFoundError(release.Chart), searched |-> TRUE]
        ELSE [comparer |->
                  MkComparer(release,
                             MkRelease(release.Name,
                                       output.charts[1].Name,
                                       output.charts[1].Version,
                                       output.charts[1].Installed)),
              err |-> NoError, searched |-> TRUE]

(***************************************************************************)
(* The manifests a run may load                                            *)
(***************************************************************************)
Declarations == {
    MkRelease(<<"a">>, ChartRA, Vv120, Unset),
    MkRelease(<<"b", "b">>, ChartLocalDot, Vmain, "false"),
    MkRelease(<<"n">>, ChartRN, V120, "true"),
    MkRelease(<<"x">>, ChartRX, V120, Unset),
    MkRelease(<<"m">>, ChartRA, Vmain, Unset)
}

Manifests ==
    UNION {[1..n -> Declarations] : n \in 0..MaxReleases}

(***************************************************************************)
(* The program: main, CheckForUpdates and its lookup tasks                 *)
(***************************************************************************)
VARIABLES
    flagStatus,       \* -status
    pc,               \* where main is
    exit,             \* "running", "ok", "fatal" (log.Fatalf) or "panic"
    helmfile,         \* um.Helmfile.Releases
    umComparisons,    \* um.Comparisons
    err,              \* CheckForUpdates: var err error, shared by the tasks
    comparisons,      \* CheckForUpdates: the pre-sized slice
    wg,               \* CheckForUpdates: the WaitGroup counter
    launched,         \* CheckForUpdates: number of go statements executed
    task,             \* per index: the goroutine's position and locals
    searchCalls,      \* per index: external searches run for that release
    retErr,           \* the error CheckForUpdates returned to main
    report            \* what main has printed

progVars ==
    <<flagStatus, pc, exit, helmfile, umComparisons, err,
      comparisons, wg, launched, task, searchCalls, retErr, report>>

\* the state of the two harnesses that exercise one function on its own:
\* HasUpdate on a pair of version strings, GetReleaseComparer on a declaration
VARIABLES cmpPhase, cmpCurrent, cmpLatest, cmpRes, cmpPrev

cmpVars == <<cmpPhase, cmpCurrent, cmpLatest, cmpRes, cmpPrev>>

VARIABLES lkPhase, lkDecl, lkOut, lkUpdate

lkVars == <<lkPhase, lkDecl, lkOut, lkUpdate>>

\* CheckForUpdates called a second time on the same UpdateManager: which call
\* is running, and the set the first call left in um.Comparisons
VARIABLES run, firstComparisons

twiceVars == <<run, firstComparisons>>

unitVars == <<cmpVars, lkVars, twiceVars>>

StatusValues == {"all", "outdated", "latest"}

N == Len(helmfile)

\* order: how many tasks had signalled completion before this one did
Idle ==
    [pc |-> "unborn", comparer |-> NilComparer, a |-> NoError, b |-> NoError,
     order |-> 0]

\* hasUpdates: "not called", or how the call of HasUpdates ended
NoReport ==
    [lines |-> <<>>, rows |-> <<>>, hasUpdates |-> "not called", paddings |-> <<0, 0>>]

InitProgram ==
    /\ flagStatus \in StatusValues
    /\ pc = "load"
    /\ exit = "running"
    /\ helmfile = <<>>
    /\ umComparisons = <<>>
    /\ err = NoError
    /\ comparisons = <<>>
    /\ wg = 0
    /\ launched = 0
    /\ task = <<>>
    /\ searchCalls = <<>>
    /\ retErr = NoError
    /\ report = NoReport

\* log.Fatalf, or an unrecovered panic: the process is gone
Terminate(how) ==
    /\ pc' = "exited"
    /\ exit' = how

(***************************************************************************)
(* main, up to the call of CheckForUpdates                                 *)
(***************************************************************************)
LoadHelmfile ==
    /\ pc = "load"
    /\ \E releases \in Manifests : helmfile' = releases
    /\ pc' = "refresh"
    /\ UNCHANGED <<flagStatus, exit, umComparisons, err,
                   comparisons, wg, launched, task, searchCalls, retErr, report, unitVars>>

\* NewHelmfile failed: log.Fatalf("Failed to load helmfile: %v", err)
LoadHelmfileFails ==
    /\ pc = "load"
    /\ Terminate("fatal")
    /\ report' = [report EXCEPT !.lines = Append(@, "Failed to load helmfile")]
    /\ UNCHANGED <<flagStatus, helmfile, umComparisons, err,
                   comparisons, wg, launched, task, searchCalls, retErr, unitVars>>

\* if *flagUpdateRepos {...}: -update-repos was not given
SkipUpdateRepositories ==
    /\ pc = "refresh"
    /\ pc' = "check"
    /\ UNCHANGED <<flagStatus, exit, helmfile, umComparisons, err, comparisons,
                   wg, launched, task, searchCalls, retErr, report, unitVars>>

\* -update-repos was given and "helm repo update" succeeded
UpdateRepositories ==
    /\ pc = "refresh"
    /\ pc' = "check"
    /\ UNCHANGED <<flagStatus, exit, helmfile, umComparisons, err, comparisons,
                   wg, launched, task, searchCalls, retErr, report, unitVars>>

\* -update-repos was given and "helm repo update" failed: log.Fatalf
\* a variant that only logs the failed refresh and goes on
UpdateRepositoriesFailsLogged ==
    /\ pc = "refresh"
    /\ pc' = "check"
    /\ report' = [report EXCEPT !.lines = Append(@, "Failed to update repositories")]
    /\ UNCHANGED <<flagStatus, exit, helmfile, umComparisons, err,
                   comparisons, wg, launched, task, searchCalls, retErr, unitVars>>

UpdateRepositoriesFails ==
    /\ pc = "refresh"
    /\ Terminate("fatal")
    /\ report' = [report EXCEPT !.lines = Append(@, "Failed to update repositories")]
    /\ UNCHANGED <<flagStatus, helmfile, umComparisons, err,
                   comparisons, wg, launched, task, searchCalls, retErr, unitVars>>

(***************************************************************************)
(* CheckForUpdates                                                         *)
(***************************************************************************)
\* var err error; comparisons := make(..., len); wg.Add(len)
CheckBegin ==
    /\ pc = "check"
    /\ pc' = "spawn"
    /\ err' = NoError
    /\ comparisons' = [i \in 1..N |-> NilComparer]
    /\ wg' = N
    /\ launched' = 0
    /\ task' = [i \in 1..N |-> Idle]
    /\ searchCalls' = [i \in 1..N |-> 0]
    /\ report' = [report EXCEPT !.lines = Append(@, "Comparing release versions...")]
    /\ UNCHANGED <<flagStatus, exit, helmfile, umComparisons, retErr, unitVars>>

\* one iteration of the range loop: go func(i, release) {...}(i, release)
Spawn ==
    /\ pc = "spawn"
    /\ launched < N
    /\ launched' = launched + 1
    /\ task' = [task EXCEPT ![launched + 1].pc = "lookup"]
    /\ UNCHANGED <<flagStatus, pc, exit, helmfile, umComparisons,
                   err, comparisons, wg, searchCalls, retErr, report, unitVars>>

SpawnDone ==
    /\ pc = "spawn"
    /\ launched = N
    /\ pc' = "wait"
    /\ UNCHANGED <<flagStatus, exit, helmfile, umComparisons, err,
                   comparisons, wg, launched, task, searchCalls, retErr, report, unitVars>>

taskFrame ==
    <<flagStatus, pc, exit, helmfile, umComparisons, launched,
      retErr, report, unitVars>>

\* a variant whose lookup defaults the flag in the stored declaration
TaskLookupInPlace(i) ==
    /\ task[i].pc = "lookup"
    /\ LET r == GetReleaseComparer(helmfile[i])
       IN  /\ err' = r.err
           /\ task' = [task EXCEPT ![i].pc = "iferr", ![i].comparer = r.comparer]
           /\ searchCalls' = [searchCalls EXCEPT ![i] = @ + (IF r.searched THEN 1 ELSE 0)]
    /\ helmfile' = [helmfile EXCEPT ![i].Installed = IF @ = Unset THEN "true" ELSE @]
    /\ UNCHANGED <<comparisons, wg>>
    /\ UNCHANGED <<flagStatus, pc, exit, umComparisons, launched,
                   retErr, report, unitVars>>

\* comparer, err = um.GetReleaseComparer(release)
TaskLookup(i) ==
    /\ task[i].pc = "lookup"
    /\ LET r == GetReleaseComparer(helmfile[i])
       IN  /\ err' = r.err
           /\ task' = [task EXCEPT ![i].pc = "iferr", ![i].comparer = r.comparer]
           /\ searchCalls' = [searchCalls EXCEPT ![i] = @ + (IF r.searched THEN 1 ELSE 0)]
    /\ UNCHANGED <<comparisons, wg>>
    /\ UNCHANGED taskFrame

\* if err != nil
TaskIfErr(i) ==
    /\ task[i].pc = "iferr"
    /\ task' = [task EXCEPT ![i].pc = IF err # NoError THEN "join" ELSE "store"]
    /\ UNCHANGED <<err, comparisons, wg, searchCalls>>
    /\ UNCHANGED taskFrame

\* errors.Join(err, ...): the first operand is read
TaskJoinReadErr(i) ==
    /\ task[i].pc \in {"join", "joinB"}
    /\ task' = [task EXCEPT ![i].a = err,
                            ![i].pc = IF task[i].pc = "join" THEN "joinA" ELSE "joinW"]
    /\ UNCHANGED <<err, comparisons, wg, searchCalls>>
    /\ UNCHANGED taskFrame

\* fmt.Errorf("... release %v: %v", release.Name, err): the second operand
TaskJoinErrorf(i) ==
    /\ task[i].pc \in {"join", "joinA"}
    /\ task' = [task EXCEPT ![i].b = ReleaseError(helmfile[i].Name, err),
                            ![i].pc = IF task[i].pc = "join" THEN "joinB" ELSE "joinW"]
    /\ UNCHANGED <<err, comparisons, wg, searchCalls>>
    /\ UNCHANGED taskFrame

\* err = errors.Join(...)
TaskJoinWrite(i) ==
    /\ task[i].pc = "joinW"
    /\ err' = Join(task[i].a, task[i].b)
    /\ task' = [task EXCEPT ![i].pc = "store", ![i].a = NoError, ![i].b = NoError]
    /\ UNCHANGED <<comparisons, wg, searchCalls>>
    /\ UNCHANGED taskFrame

\* a variant that appends on completion instead of using the task's index
SlotByCompletion(i) ==
    Cardinality({j \in DOMAIN task : task[j].pc \in {"return", "finished"}}) + 1

\* the slot a task stores its comparer in
SlotOf(i) == i

\* a variant that rebuilds the slice around the task's own comparer
TaskStoreWholeSlice(i) ==
    /\ task[i].pc = "store"
    /\ comparisons' = [k \in DOMAIN comparisons |->
                           IF k = i THEN task[i].comparer ELSE NilComparer]
    /\ task' = [task EXCEPT ![i].pc = "return"]
    /\ UNCHANGED <<err, wg, searchCalls>>
    /\ UNCHANGED taskFrame

\* comparisons[i] = comparer
TaskStore(i) ==
    /\ task[i].pc = "store"
    /\ comparisons' = [comparisons EXCEPT ![SlotOf(i)] = task[i].comparer]
    /\ task' = [task EXCEPT ![i].pc = "return"]
    /\ UNCHANGED <<err, wg, searchCalls>>
    /\ UNCHANGED taskFrame

\* a variant that signals completion only when the lookup succeeded
TaskDoneOnSuccessOnly(i) ==
    /\ task[i].pc = "return"
    /\ wg' = IF task[i].comparer.nil THEN wg ELSE wg - 1
    /\ task' = [task EXCEPT ![i].pc = "finished", ![i].comparer = NilComparer,
                            ![i].order = N - wg]
    /\ UNCHANGED <<err, comparisons, searchCalls>>
    /\ UNCHANGED taskFrame

\* defer wg.Done()
TaskDone(i) ==
    /\ task[i].pc = "return"
    /\ wg' = wg - 1
    /\ task' = [task EXCEPT ![i].pc = "finished", ![i].comparer = NilComparer,
                            ![i].order = N - wg]
    /\ UNCHANGED <<err, comparisons, searchCalls>>
    /\ UNCHANGED taskFrame

\* a variant whose join is released one completion early
WaitReleasedEarly == wg <= 1

\* wg.Wait() lets main through once the counter is zero
WaitReleased == wg = 0

\* a variant that appends the new comparisons to the ones already stored
CheckReturnAppend ==
    /\ pc = "wait"
    /\ WaitReleased
    /\ umComparisons' = umComparisons \o comparisons
    /\ retErr' = err
    /\ pc' = "checked"
    /\ UNCHANGED <<flagStatus, exit, helmfile, err, comparisons,
                   wg, launched, task, searchCalls, report, unitVars>>

\* wg.Wait(); um.Comparisons = comparisons; return err
CheckReturn ==
    /\ pc = "wait"
    /\ WaitReleased
    /\ umComparisons' = comparisons
    /\ retErr' = err
    /\ pc' = "checked"
    /\ UNCHANGED <<flagStatus, exit, helmfile, err, comparisons,
                   wg, launched, task, searchCalls, report, unitVars>>

(***************************************************************************)
(* UpdateManager.HasUpdates and getColumnPaddings                          *)
(***************************************************************************)
\* for _, comparer := range cs { if comparer.HasUpdate() { return true } }
RECURSIVE HasUpdates(_)
\* one iteration: u is what comparer.HasUpdate() did
HasUpdatesNext(u, rest) ==
    IF u.panicked THEN [result |-> FALSE, panicked |-> TRUE]
    ELSE IF u.result THEN [result |-> TRUE, panicked |-> FALSE]
    ELSE HasUpdates(rest)

HasUpdates(cs) ==
    IF cs = <<>> THEN [result |-> FALSE, panicked |-> FALSE]
    ELSE HasUpdatesNext(HasUpdate(Head(cs)), Tail(cs))

Max(a, b) == IF a > b THEN a ELSE b

RECURSIVE MaxLen(_, _)
MaxLen(cs, field) ==
    IF cs = <<>> THEN 0
    ELSE Max(Len(Head(cs).Current[field]), MaxLen(Tail(cs), field))

\* release.Name() on a nil comparer dereferences nil
getColumnPaddings(cs) ==
    IF \E k \in 1..Len(cs) : cs[k].nil
    THEN [panicked |-> TRUE, paddings |-> <<0, 0>>]
    ELSE [panicked |-> FALSE,
          paddings |-> <<MaxLen(cs, "Name") + 1, MaxLen(cs, "Version") + 1>>]

(***************************************************************************)
(* main, after CheckForUpdates                                             *)
(***************************************************************************)
mainFrame ==
    <<flagStatus, helmfile, umComparisons, err, comparisons, wg,
      launched, task, searchCalls, retErr, unitVars>>

\* if err = updateManager.CheckForUpdates(); err != nil { log.Fatalf(...) }
MainCheckFailed ==
    /\ pc = "checked"
    /\ retErr # NoError
    /\ Terminate("fatal")
    /\ report' = [report EXCEPT !.lines = Append(@, "Failed to check for updates")]
    /\ UNCHANGED mainFrame

\* main once HasUpdates has ended as r
AfterHasUpdates(r) ==
    IF r.panicked
    THEN /\ Terminate("panic")
         /\ report' = [report EXCEPT !.hasUpdates = "panic"]
    ELSE IF ~r.result
    THEN /\ Terminate("ok")
         /\ report' = [report EXCEPT !.hasUpdates = "false",
                                     !.lines = Append(@, "Charts are up-to-date")]
    ELSE /\ pc' = "paddings"
         /\ report' = [report EXCEPT !.hasUpdates = "true"]
         /\ UNCHANGED exit

\* if !updateManager.HasUpdates() { ...; return }
MainHasUpdates ==
    /\ pc = "checked"
    /\ retErr = NoError
    /\ AfterHasUpdates(HasUpdates(umComparisons))
    /\ UNCHANGED mainFrame

\* main once getColumnPaddings has ended as r
AfterPaddings(r) ==
    IF r.panicked
    THEN /\ Terminate("panic")
         /\ UNCHANGED report
    ELSE /\ pc' = "rows"
         /\ report' = [report EXCEPT !.paddings = r.paddings,
                                     !.lines = Append(@, "header")]
         /\ UNCHANGED exit

\* getColumnPaddings, then the header line
MainPaddings ==
    /\ pc = "paddings"
    /\ AfterPaddings(getColumnPaddings(umComparisons))
    /\ UNCHANGED mainFrame

\* a variant whose "latest" case prints every row
ShownLatestUnfiltered(status, u) ==
    \/ status = "all"
    \/ status = "outdated" /\ u
    \/ status = "latest"

\* whether the -status filter prints a row whose HasUpdate() is u
Shown(status, u) ==
    \/ status = "all"
    \/ status = "outdated" /\ u
    \/ status = "latest" /\ ~u

\* the body of the report loop for comparer k, u being what HasUpdate() did
PrintRow(k, release, u) ==
    IF u.panicked
    THEN /\ Terminate("panic")
         /\ UNCHANGED report
    ELSE /\ report' = [report EXCEPT !.rows = Append(@,
                          [index |-> k,
                           name |-> release.Current.Name,
                           current |-> release.Current.Version,
                           latest |-> release.Latest.Version,
                           update |-> u.result,
                           shown |-> Shown(flagStatus, u.result)])]
         /\ UNCHANGED <<pc, exit>>

\* one iteration of the report loop
MainRow ==
    /\ pc = "rows"
    /\ Len(report.rows) < Len(umComparisons)
    /\ PrintRow(Len(report.rows) + 1,
                umComparisons[Len(report.rows) + 1],
                HasUpdate(umComparisons[Len(report.rows) + 1]))
    /\ UNCHANGED mainFrame

MainReturn ==
    /\ pc = "rows"
    /\ Len(report.rows) = Len(umComparisons)
    /\ Terminate("ok")
    /\ UNCHANGED report
    /\ UNCHANGED mainFrame

(***************************************************************************)
(* The comparator on its own: HasUpdate applied to a pair of version       *)
(* strings, then to the same pair reversed.                                *)
(***************************************************************************)
BaseVersions == {
    <<"1", ".", "2", ".", "0">>,                             \* "1.2.0"
    <<"1", ".", "3", ".", "0">>,                             \* "1.3.0"
    <<"1", ".", "2">>,                                       \* "1.2"
    <<"1", ".", "2", ".", "1">>,                             \* "1.2.1"
    <<"2", ".", "0", ".", "0">>,                             \* "2.0.0"
    <<"1", "0", ".", "0", ".", "0">>,                        \* "10.0.0"
    <<"1", ".", "3", ".", "0", "-", "a">>,                   \* "1.3.0-a"
    <<"1", ".", "3", ".", "0", "-", "b">>,                   \* "1.3.0-b"
    <<"1", ".", "3", ".", "0", "-", "1">>,                   \* "1.3.0-1"
    <<"1", ".", "3", ".", "0", "-", "a", ".", "1">>,         \* "1.3.0-a.1"
    <<"1", ".", "3", ".", "0", "+", "b">>,                   \* "1.3.0+b"
    <<"1", ".", "3", ".", "0", "-", "0", "1">>,              \* "1.3.0-01"
    <<"1", ".", "2", ".", "0", ".", "0">>,                   \* "1.2.0.0"
    <<"m", "a", "i", "n">>,                                  \* "main"
    <<"1", ".", "x">>,                                       \* "1.x"
    <<>>,                                                    \* ""
    <<"v", "1", ".", "2", ".", "0">>,                        \* "v1.2.0"
    <<"v", "m", "a", "i", "n">>                              \* "vmain"
}

\* every base string, with and without one more leading "v" marker
VersionInputs == BaseVersions \cup {<<"v">> \o s : s \in BaseVersions}


NoRes == [result |-> FALSE, panicked |-> FALSE, parses |-> 0, logged |-> 0]

CmpComparer(cur, lat) ==
    MkComparer(MkRelease("a", <<"r", "/", "a">>, cur, "true"),
               MkRelease("a", <<"a">>, lat, Unset))

cmpOff ==
    /\ cmpPhase = "off"
    /\ cmpCurrent = <<>>
    /\ cmpLatest = <<>>
    /\ cmpRes = NoRes
    /\ cmpPrev = NoRes

NoOut == [comparer |-> NilComparer, err |-> NoError, searched |-> FALSE]

lkOff ==
    /\ lkPhase = "off"
    /\ lkDecl = MkRelease(<<>>, <<>>, <<>>, Unset)
    /\ lkOut = NoOut
    /\ lkUpdate = NoRes

twiceOff ==
    /\ run = 1
    /\ firstComparisons = <<>>

\* the program is not running while one function is exercised on its own
progOff ==
    /\ flagStatus = "all"
    /\ pc = "exited"
    /\ exit = "ok"
    /\ helmfile = <<>>
    /\ umComparisons = <<>>
    /\ err = NoError
    /\ comparisons = <<>>
    /\ wg = 0
    /\ launched = 0
    /\ task = <<>>
    /\ searchCalls = <<>>
    /\ retErr = NoError
    /\ report = NoReport

InitCmp ==
    /\ progOff
    /\ lkOff
    /\ twiceOff
    /\ cmpPhase = "input"
    /\ cmpCurrent \in VersionInputs
    /\ cmpLatest \in VersionInputs
    /\ cmpRes = NoRes
    /\ cmpPrev = NoRes

CallHasUpdate ==
    /\ cmpPhase = "input"
    /\ cmpPhase' = "called"
    /\ cmpRes' = HasUpdate(CmpComparer(cmpCurrent, cmpLatest))
    /\ UNCHANGED <<cmpCurrent, cmpLatest, cmpPrev>>
    /\ UNCHANGED <<progVars, lkVars, twiceVars>>

CallReversed ==
    /\ cmpPhase = "called"
    /\ cmpPhase' = "reversed"
    /\ cmpCurrent' = cmpLatest
    /\ cmpLatest' = cmpCurrent
    /\ cmpPrev' = cmpRes
    /\ cmpRes' = HasUpdate(CmpComparer(cmpLatest, cmpCurrent))
    /\ UNCHANGED <<progVars, lkVars, twiceVars>>

NextCmp == CallHasUpdate \/ CallReversed

(***************************************************************************)
(* The lookup on its own: GetReleaseComparer applied to one declaration,   *)
(* then HasUpdate to the comparer it returned.                             *)
(***************************************************************************)
LookupCharts == {
    ChartLocalAbs, ChartLocalDot, ChartLocalUp,
    <<"/">>, <<".", "/">>, <<".", ".", "/">>,
    <<".", "b">>, <<".", ".", "b">>, <<".">>, <<".", ".">>, <<>>,
    <<"b", "/">>, <<"b", ".", "/", "b">>,
    ChartRA, ChartRB, ChartRN, ChartRX, ChartRG
}

LookupVersions == {V120, Vv120, V130, Vmain, V1x, <<>>}

LookupDecls ==
    {MkRelease(<<"a">>, c, v, i) :
        c \in LookupCharts, v \in LookupVersions, i \in InstalledValues}

InitLookup ==
    /\ progOff
    /\ cmpOff
    /\ twiceOff
    /\ lkPhase = "input"
    /\ lkDecl \in LookupDecls
    /\ lkOut = NoOut
    /\ lkUpdate = NoRes

CallGetReleaseComparer ==
    /\ lkPhase = "input"
    /\ lkPhase' = "looked up"
    /\ lkOut' = GetReleaseComparer(lkDecl)
    /\ UNCHANGED <<lkDecl, lkUpdate>>
    /\ UNCHANGED <<progVars, cmpVars, twiceVars>>

CallComparerHasUpdate ==
    /\ lkPhase = "looked up"
    /\ lkOut.err = NoError
    /\ lkPhase' = "compared"
    /\ lkUpdate' = HasUpdate(lkOut.comparer)
    /\ UNCHANGED <<lkDecl, lkOut>>
    /\ UNCHANGED <<progVars, cmpVars, twiceVars>>

NextLookup == CallGetReleaseComparer \/ CallComparerHasUpdate

vars == <<progVars, cmpVars, lkVars, twiceVars>>

SpecLookup == InitLookup /\ [][NextLookup]_vars

SpecCmp == InitCmp /\ [][NextCmp]_vars

(***************************************************************************)
(* The whole program                                                       *)
(***************************************************************************)
Init == InitProgram /\ cmpOff /\ lkOff /\ twiceOff

Next ==
    \/ LoadHelmfile
    \/ LoadHelmfileFails
    \/ SkipUpdateRepositories
    \/ UpdateRepositories
    \/ UpdateRepositoriesFails
    \/ CheckBegin
    \/ Spawn
    \/ SpawnDone
    \/ \E i \in DOMAIN task : TaskLookup(i)
    \/ \E i \in DOMAIN task : TaskIfErr(i)
    \/ \E i \in DOMAIN task : TaskJoinReadErr(i)
    \/ \E i \in DOMAIN task : TaskJoinErrorf(i)
    \/ \E i \in DOMAIN task : TaskJoinWrite(i)
    \/ \E i \in DOMAIN task : TaskStore(i)
    \/ \E i \in DOMAIN task : TaskDone(i)
    \/ CheckReturn
    \/ MainCheckFailed
    \/ MainHasUpdates
    \/ MainPaddings
    \/ MainRow
    \/ MainReturn

Spec == Init /\ [][Next]_vars

(***************************************************************************)
(* CheckForUpdates twice: the caller keeps the set of the first call and    *)
(* calls again, on the same manifest and against the same registry.         *)
(***************************************************************************)
\* the caller drops the first call's error and calls CheckForUpdates again
CheckAgain ==
    /\ pc = "checked"
    /\ run = 1
    /\ run' = 2
    /\ firstComparisons' = umComparisons
    /\ retErr' = NoError
    /\ pc' = "check"
    /\ UNCHANGED <<flagStatus, exit, helmfile, umComparisons, err, comparisons,
                   wg, launched, task, searchCalls, report, cmpVars, lkVars>>

NextTwice ==
    \/ LoadHelmfile
    \/ SkipUpdateRepositories
    \/ CheckBegin
    \/ Spawn
    \/ SpawnDone
    \/ \E i \in DOMAIN task : TaskLookup(i)
    \/ \E i \in DOMAIN task : TaskIfErr(i)
    \/ \E i \in DOMAIN task : TaskJoinReadErr(i)
    \/ \E i \in DOMAIN task : TaskJoinErrorf(i)
    \/ \E i \in DOMAIN task : TaskJoinWrite(i)
    \/ \E i \in DOMAIN task : TaskStore(i)
    \/ \E i \in DOMAIN task : TaskDone(i)
    \/ CheckReturn
    \/ CheckAgain

\* the caller of the two calls prints no report: -status plays no part
InitTwice == Init /\ flagStatus = "all"

SpecTwice == InitTwice /\ [][NextTwice]_vars

(***************************************************************************)
(* Progress: the Go scheduler runs every runnable goroutine, so main inside *)
(* CheckForUpdates and every task step that does not wait for the external *)
(* helm process keep going.  Nothing is assumed of the external search:     *)
(* the task step that waits for it may never happen.                        *)
(***************************************************************************)
\* main's steps inside CheckForUpdates
EngineProgress == CheckBegin \/ Spawn \/ SpawnDone \/ CheckReturn

\* the steps of goroutine i after its call of GetReleaseComparer has returned
TaskProgress(i) ==
    /\ i \in DOMAIN task
    /\ \/ TaskIfErr(i)
       \/ TaskJoinReadErr(i)
       \/ TaskJoinErrorf(i)
       \/ TaskJoinWrite(i)
       \/ TaskStore(i)
       \/ TaskDone(i)

Fairness ==
    /\ WF_vars(EngineProgress)
    /\ \A i \in 1..MaxReleases : WF_vars(TaskProgress(i))

\* the manifests in which every release is one whose lookup succeeds (a) or
\* one whose lookup fails (x): the two paths a task can take to its wg.Done
ProgressManifests ==
    UNION {[1..n -> {d \in Declarations : d.Name \in {<<"a">>, <<"x">>}}] :
               n \in 0..MaxReleases}

LoadProgressManifest ==
    /\ pc = "load"
    /\ \E releases \in ProgressManifests : helmfile' = releases
    /\ pc' = "refresh"
    /\ UNCHANGED <<flagStatus, exit, umComparisons, err,
                   comparisons, wg, launched, task, searchCalls, retErr, report, unitVars>>

\* the program up to the return of CheckForUpdates
NextLive ==
    \/ LoadProgressManifest
    \/ SkipUpdateRepositories
    \/ UpdateRepositories
    \/ CheckBegin
    \/ Spawn
    \/ SpawnDone
    \/ \E i \in DOMAIN task : TaskLookup(i)
    \/ \E i \in DOMAIN task : TaskIfErr(i)
    \/ \E i \in DOMAIN task : TaskJoinReadErr(i)
    \/ \E i \in DOMAIN task : TaskJoinErrorf(i)
    \/ \E i \in DOMAIN task : TaskJoinWrite(i)
    \/ \E i \in DOMAIN task : TaskStore(i)
    \/ \E i \in DOMAIN task : TaskDone(i)
    \/ CheckReturn

InitLive == Init /\ flagStatus = "all"

SpecLive == InitLive /\ [][NextLive]_vars /\ Fairness

(***************************************************************************)
(* Properties                                                              *)
(***************************************************************************)
\* what the lookup of release i yields, whenever it runs
LookupOf(i) == GetReleaseComparer(helmfile[i])

Failing(i) == LookupOf(i).err # NoError

\* CheckForUpdates has just returned to main
Returned == pc = "checked"

SameDeclaration(r, d) ==
    /\ r.Name = d.Name
    /\ r.Chart = d.Chart
    /\ r.Version = d.Version

\* C1: whatever the order in which the lookup tasks complete, the set left in
\* um.Comparisons has one slot per release of the manifest, a populated slot i
\* holds release i as Current, and slot i is exactly what the lookup of
\* release i yields.
C1_ManifestOrder ==
    Returned =>
        /\ Len(umComparisons) = Len(helmfile)
        /\ \A i \in 1..Len(helmfile) :
            /\ ~umComparisons[i].nil =>
                   SameDeclaration(umComparisons[i].Current, helmfile[i])
            /\ umComparisons[i] = LookupOf(i).comparer

\* two different releases, both populated, the second completed first
C1_ReversedCompletion ==
    /\ Returned
    /\ Len(helmfile) = 2
    /\ helmfile[1] # helmfile[2]
    /\ ~umComparisons[1].nil
    /\ ~umComparisons[2].nil
    /\ task[2].order < task[1].order

\* C2: with exactly one failing lookup, CheckForUpdates returns N slots, N-1
\* of them populated, a nil gap at the failed index, and a non-nil error
\* that names the failed release.
C2_OneFailureGap ==
    (Returned /\ Cardinality({i \in 1..Len(helmfile) : Failing(i)}) = 1) =>
        LET f == CHOOSE i \in 1..Len(helmfile) : Failing(i)
        IN  /\ Len(umComparisons) = Len(helmfile)
            /\ Cardinality({i \in 1..Len(helmfile) : ~umComparisons[i].nil})
                   = Len(helmfile) - 1
            /\ umComparisons[f].nil
            /\ retErr # NoError
            /\ <<"release", helmfile[f].Name>> \in retErr

\* C3: the error CheckForUpdates returns holds a failure entry for every
\* release whose lookup failed.
C3_EveryFailureFolded ==
    Returned =>
        \A i \in 1..Len(helmfile) :
            Failing(i) => <<"release", helmfile[i].Name>> \in retErr

\* C4: once CheckForUpdates has returned (and so whenever the process has
\* ended), every release has had its task, every task has run to its end,
\* and each has made its one external search (none for a local chart),
\* whether or not other lookups failed.
C4_AllTasksComplete ==
    /\ Returned => DOMAIN task = 1..Len(helmfile)
    /\ pc \in {"checked", "paddings", "rows", "exited"} =>
           \A i \in DOMAIN task :
               /\ task[i].pc = "finished"
               /\ searchCalls[i] = IF IsLocalChart(helmfile[i].Chart) THEN 0 ELSE 1

\* a lookup failed first, and its sibling still ran to the end afterwards
C4_FailureBesideSuccess ==
    /\ Returned
    /\ Len(helmfile) = 2
    /\ Failing(1)
    /\ ~Failing(2)
    /\ task[1].order < task[2].order
    /\ searchCalls[2] = 1
    /\ ~umComparisons[2].nil
\* the run is over
Exited == pc = "exited"

RowIndices == {report.rows[k].index : k \in DOMAIN report.rows}

\* C5: in a run where a lookup failed and another succeeded, the rows of
\* the successful releases are produced and the failure is reported.
C5_PartialReportShown ==
    (/\ Exited
     /\ \E i \in DOMAIN task : Failing(i)
     /\ \E j \in DOMAIN task : ~Failing(j)) =>
        /\ \A j \in DOMAIN task : ~Failing(j) => j \in RowIndices
        /\ \E k \in DOMAIN report.lines :
               report.lines[k] = "Failed to check for updates"

\* C6: HasUpdates returns true exactly when some populated comparison has
\* an update; nil gaps are skipped and never make the call fail.
C6_HasUpdatesSkipsGaps ==
    report.hasUpdates # "not called" =>
        report.hasUpdates =
            IF \E i \in DOMAIN umComparisons :
                   ~umComparisons[i].nil /\ HasUpdate(umComparisons[i]).result
            THEN "true" ELSE "false"

\* the chart reference starts with "/", "./" or "../"
StartsLocal(chart) ==
    \/ Len(chart) >= 1 /\ chart[1] = "/"
    \/ Len(chart) >= 2 /\ chart[1] = "." /\ chart[2] = "/"
    \/ Len(chart) >= 3 /\ chart[1] = "." /\ chart[2] = "." /\ chart[3] = "/"

\* C7: for a chart reference that starts with "/", "./" or "../" the lookup
\* runs no external search, succeeds with Latest equal to Current, and
\* HasUpdate() is false whatever the declared version is.
C7_LocalChartUpToDate ==
    (lkPhase # "input" /\ StartsLocal(lkDecl.Chart)) =>
        /\ ~lkOut.searched
        /\ lkOut.err = NoError
        /\ ~lkOut.comparer.nil
        /\ lkOut.comparer.Latest = lkOut.comparer.Current
        /\ SameDeclaration(lkOut.comparer.Current, lkDecl)
        /\ lkPhase = "compared" => (~lkUpdate.result /\ ~lkUpdate.panicked)

\* a "../" chart with a version that is no semantic version, compared
C7_ParentPathNonSemver ==
    /\ lkPhase = "compared"
    /\ lkDecl.Chart = ChartLocalUp
    /\ lkDecl.Version = Vmain
    /\ ~lkOut.searched
    /\ ~lkUpdate.result

\* the version, its marker trimmed, is rejected by the parser
Unparsable(version) == ~NewVersion(TrimPrefix(version, <<"v">>)).ok

RowHasParseFailure(row) ==
    /\ TrimPrefix(row.current, <<"v">>) # TrimPrefix(row.latest, <<"v">>)
    /\ Unparsable(row.current) \/ Unparsable(row.latest)

\* C8: a release whose current or latest version does not parse gets the
\* status "no update", the run is not aborted by it (only a nil gap makes
\* the program panic), and every release's status in the report is the one
\* its own comparison gives.
C8_ParseFailureIsNoUpdate ==
    /\ \A k \in DOMAIN report.rows :
           /\ RowHasParseFailure(report.rows[k]) => ~report.rows[k].update
           /\ report.rows[k].update =
                  HasUpdate(LookupOf(report.rows[k].index).comparer).result
    /\ exit = "panic" => \E i \in DOMAIN umComparisons : umComparisons[i].nil
    /\ (exit = "ok" /\ report.hasUpdates = "true") =>
           Len(report.rows) = Len(helmfile)

\* a finished report: first a release with a parse failure, then one with an update
C8_ParseFailureBesideUpdate ==
    /\ Exited
    /\ exit = "ok"
    /\ Len(report.rows) = 2
    /\ RowHasParseFailure(report.rows[1])
    /\ ~report.rows[1].update
    /\ report.rows[2].update

\* semver precedence of pre-release strings: a version with a pre-release
\* precedes the one without, otherwise identifier by identifier
PrecedesPre(a, b) ==
    /\ a # <<>>
    /\ b = <<>> \/ ComparePreParts(SplitDots(a), SplitDots(b)) < 0

\* semver precedence: major, then minor, then patch, then pre-release
Precedes(x, y) ==
    \/ x.major < y.major
    \/ x.major = y.major /\ x.minor < y.minor
    \/ x.major = y.major /\ x.minor = y.minor /\ x.patch < y.patch
    \/ /\ x.major = y.major /\ x.minor = y.minor /\ x.patch = y.patch
       /\ PrecedesPre(x.pre, y.pre)

OrderAgrees(x, y, result) == (x.ok /\ y.ok) => (result <=> Precedes(x, y))

\* C9: when both versions parse, HasUpdate() is true exactly when the
\* current version precedes the latest in semver order, and HasUpdate is
\* never true in both directions of a pair.
C9_SemverOrder ==
    /\ cmpPhase # "input" =>
           OrderAgrees(NewVersion(cmpCurrent), NewVersion(cmpLatest), cmpRes.result)
    /\ cmpPhase = "reversed" => ~(cmpPrev.result /\ cmpRes.result)

\* hasNewer("v1.2.0", "1.3.0") was true, then hasNewer("1.3.0", "v1.2.0") false
C9_ExamplePair ==
    /\ cmpPhase = "reversed"
    /\ cmpLatest = Vv120
    /\ cmpCurrent = V130
    /\ cmpPrev.result
    /\ ~cmpRes.result

\* the two strings are the same, or one is the other with one more "v"
OneMarkerApart(a, b) == a = b \/ a = <<"v">> \o b \/ b = <<"v">> \o a

SingleMarker(a, b) ==
    \/ a = b
    \/ a = <<"v">> \o b /\ ~HasPrefix(b, <<"v">>)
    \/ b = <<"v">> \o a /\ ~HasPrefix(a, <<"v">>)

Printed(l) == \E k \in DOMAIN report.lines : report.lines[k] = l

\* no lookup task exists, no search was run, nothing of the report was made
NothingStarted ==
    /\ task = <<>>
    /\ launched = 0
    /\ searchCalls = <<>>
    /\ umComparisons = <<>>
    /\ report.rows = <<>>
    /\ report.hasUpdates = "not called"
    /\ ~Printed("Comparing release versions...")
    /\ ~Printed("header")

\* C11: no lookup task is started before the manifest has loaded and the
\* refresh (if any) has ended; when the load or the refresh fails the run
\* is over, with no lookup ever started and no part of the report produced.
C11_LoadAndRefreshFirst ==
    /\ pc \in {"load", "refresh"} => NothingStarted
    /\ (Printed("Failed to load helmfile") \/ Printed("Failed to update repositories")) =>
           /\ pc = "exited"
           /\ exit = "fatal"
           /\ NothingStarted

\* a manifest with releases was loaded, then the refresh failed
C11_RefreshFailedAfterLoad ==
    /\ Printed("Failed to update repositories")
    /\ Len(helmfile) = MaxReleases
    /\ pc = "exited"

\* the comparison c of the declaration decl carries the release's own name on
\* both sides and, after a search, the first record's chart and version
NamePreserved(c, decl, found) ==
    /\ c.Current.Name = decl.Name
    /\ c.Latest.Name = c.Current.Name
    /\ ~IsLocalChart(decl.Chart) =>
           /\ found # <<>>
           /\ c.Latest.Chart = found[1].Name
           /\ c.Latest.Version = found[1].Version

\* C12: every populated comparison, while the tasks fill the slots and in
\* the set left in um.Comparisons, has Latest.Name equal to Current.Name, the
\* release's own name; after a registry lookup Latest.Chart and
\* Latest.Version are those of the first record returned, whatever name
\* that record carries.
C12_LatestKeepsReleaseName ==
    /\ \A i \in DOMAIN comparisons : ~comparisons[i].nil =>
           NamePreserved(comparisons[i], helmfile[i], SearchRepo(helmfile[i].Chart).charts)
    /\ \A i \in DOMAIN umComparisons : ~umComparisons[i].nil =>
           NamePreserved(umComparisons[i], helmfile[i], SearchRepo(helmfile[i].Chart).charts)

\* a returned comparison whose registry record is named unlike the chart
\* that was searched for, and unlike the release
C12_RecordNamedOtherwise ==
    /\ Returned
    /\ \E i \in DOMAIN umComparisons :
           /\ ~umComparisons[i].nil
           /\ umComparisons[i].Latest.Chart # helmfile[i].Chart
           /\ umComparisons[i].Latest.Chart # helmfile[i].Name
           /\ umComparisons[i].Latest.Name = helmfile[i].Name

\* the next step of task i writes the shared err (lines 182, 184)
WritesErr(i) == task[i].pc \in {"lookup", "joinW"}

\* the next step of task i reads the shared err (lines 183, 184)
ReadsErr(i) == task[i].pc \in {"iferr", "join", "joinA", "joinB"}

\* C13: no two lookup tasks are ever both about to access the shared err
\* with one of the two accesses a write; the code takes no lock and uses no
\* channel, so nothing orders two such accesses.
C13_ErrNeverRaced ==
    \A i, j \in DOMAIN task :
        (i # j /\ WritesErr(i)) => ~(WritesErr(j) \/ ReadsErr(j))

\* task i executes its statement comparisons[i] = comparer in this step
Stores(i) == task[i].pc = "store" /\ task'[i].pc = "return"

\* task i has executed its store
HasStored(i) == task[i].pc \in {"return", "finished"}

\* what a step may do to the slice and to the tasks' progress
SlotDiscipline ==
    /\ \A i \in DOMAIN task :
           /\ Stores(i) =>
                 /\ comparisons'[i] = task[i].comparer
                 /\ \A k \in DOMAIN comparisons : k # i => comparisons'[k] = comparisons[k]
                 /\ \A j \in DOMAIN task : j # i => ~Stores(j)
           /\ HasStored(i) => (DOMAIN task' = DOMAIN task /\ HasStored(i)')
    /\ comparisons' # comparisons =>
           (pc = "check" \/ \E i \in DOMAIN task : Stores(i))
    /\ (pc = "wait" /\ pc' = "checked") =>
           /\ \A i \in DOMAIN task : task[i].pc = "finished"
           /\ umComparisons' = comparisons

\* C14: the step in which task i stores writes slot i and leaves every other
\* slot as it was; a task stores once (having stored, it never stores
\* again) and no two tasks store in one step; the slice changes only when it
\* is made and when a task stores; CheckForUpdates reads it only when every
\* task has finished.
C14_OneSlotPerTask == [][SlotDiscipline]_vars

\* every task of a full manifest has stored a comparer, the second one first,
\* and the engine is still waiting for the first to signal
C14_AllStoredBeforeJoin ==
    /\ pc = "wait"
    /\ N = MaxReleases
    /\ \A i \in DOMAIN task : HasStored(i) /\ ~comparisons[i].nil
    /\ task[1].pc = "return"
    /\ \A i \in DOMAIN task : i # 1 => task[i].pc = "finished"

\* goroutine i is inside its call of GetReleaseComparer
InLookup(i) == i \in DOMAIN task /\ task[i].pc = "lookup"

\* every external lookup that is started returns at some time
LookupsReturn == \A i \in 1..MaxReleases : ~<>[]InLookup(i)

\* the number of tasks that have signalled completion
Completions == Cardinality({i \in DOMAIN task : task[i].pc = "finished"})

\* C15: if every lookup returns, a call of CheckForUpdates returns; the
\* WaitGroup counter is always N minus the number of tasks that have
\* signalled, whether they succeeded or failed, so the join is released after
\* exactly N completions; and if some lookup never returns, CheckForUpdates
\* never returns.
C15_ReturnsIffLookupsReturn ==
    /\ LookupsReturn => ((pc = "check") ~> (pc = "checked"))
    /\ [](pc \in {"spawn", "wait", "checked"} => wg = N - Completions)
    /\ [](pc = "checked" => Completions = N)
    /\ (\E i \in 1..MaxReleases : <>[]InLookup(i)) => [](pc # "checked")

\* CheckForUpdates has returned after a full manifest's tasks signalled, a
\* failed lookup's task last and a successful one's before it
C15_ReleasedAfterBothPaths ==
    /\ pc = "checked"
    /\ N = MaxReleases
    /\ wg = 0
    /\ \E i, j \in DOMAIN task :
           /\ Failing(i)
           /\ ~Failing(j)
           /\ task[i].order = N - 1
           /\ task[j].order < N - 1

\* the declaration with its installed flag defaulted
Defaulted(decl) ==
    [decl EXCEPT !.Installed = IF @ = Unset THEN "true" ELSE @]

\* a step after the load leaves the manifest as it is, and what a lookup
\* put in a slot is the defaulted copy of the stored declaration
ManifestKept ==
    /\ pc # "load" => helmfile' = helmfile
    /\ \A i \in DOMAIN comparisons :
           ~comparisons[i].nil => comparisons[i].Current = Defaulted(helmfile[i])

\* C16: once loaded, Helmfile.Releases is never changed, by no step of any
\* task in any interleaving: every release keeps its name, chart, version
\* and installed value, an unset flag staying unset, while the comparison
\* holds a copy in which the flag is defaulted.
C16_ManifestUntouched == [][ManifestKept]_vars

\* after the run a release's flag is still unset in the manifest and true
\* in its comparison
C16_DefaultedInCopyOnly ==
    /\ Returned
    /\ \E i \in DOMAIN umComparisons :
           /\ helmfile[i].Installed = Unset
           /\ ~umComparisons[i].nil
           /\ umComparisons[i].Current.Installed = "true"
           /\ umComparisons[i].Current.Name = helmfile[i].Name

\* the releases the report lists
Listed == {report.rows[k].index : k \in {r \in DOMAIN report.rows : report.rows[r].shown}}

\* HasUpdate() of the populated comparison i
UpdateOf(i) == HasUpdate(umComparisons[i]).result

\* the releases the mode asks for
Wanted(mode) ==
    {i \in {k \in DOMAIN umComparisons : ~umComparisons[k].nil} :
        CASE mode = "all" -> TRUE
          [] mode = "outdated" -> UpdateOf(i)
          [] mode = "latest" -> ~UpdateOf(i)}

\* the run went through without a failed lookup and ended normally
EndedNormally ==
    /\ pc = "exited"
    /\ exit = "ok"
    /\ report.hasUpdates # "not called"

\* C17 as stated: at the end of a normal run the report lists every release
\* in mode "all", those with an update in mode "outdated" and those without
\* in mode "latest", also when no release has an update.
C17_FilterOverWholeSet ==
    EndedNormally => Listed = Wanted(flagStatus)

\* row k of the report is comparison k, listed as the mode asks
RowFiltered(k) ==
    /\ report.rows[k].index = k
    /\ ~umComparisons[k].nil
    /\ report.rows[k].name = umComparisons[k].Current.Name
    /\ report.rows[k].update = UpdateOf(k)
    /\ report.rows[k].shown <=> k \in Wanted(flagStatus)

\* C17 amended: every row the report loop reaches is its comparison, listed
\* exactly when the mode asks for it; a normal run in which some release has
\* an update lists exactly the releases the mode asks for, so "outdated"
\* and "latest" partition the set; when no release has an update main
\* prints the up-to-date line and lists no release, whatever the mode.
C17_FilterOverReportedRows ==
    /\ \A k \in DOMAIN report.rows : RowFiltered(k)
    /\ (EndedNormally /\ report.hasUpdates = "true") =>
           /\ Listed = Wanted(flagStatus)
           /\ Wanted("outdated") \cup Wanted("latest") = DOMAIN umComparisons
           /\ Wanted("outdated") \cap Wanted("latest") = {}
    /\ report.hasUpdates = "false" =>
           /\ report.rows = <<>>
           /\ Printed("Charts are up-to-date")
           /\ Wanted("outdated") = {}

\* a finished report in mode "latest" over a full manifest: some release
\* listed, some release left out
C17_LatestListsSome ==
    /\ EndedNormally
    /\ flagStatus = "latest"
    /\ Len(report.rows) = MaxReleases
    /\ Listed # {}
    /\ Listed # DOMAIN umComparisons

\* C18: when a second call of CheckForUpdates on the same manifest, against
\* the same registry, has returned, um.Comparisons is the set the first call
\* left: same length, same order, same Current and Latest in every slot,
\* whatever the interleavings of the two calls were.
C18_SecondRunSameSet ==
    (run = 2 /\ pc = "checked") =>
        /\ Len(umComparisons) = Len(firstComparisons)
        /\ \A i \in DOMAIN umComparisons : umComparisons[i] = firstComparisons[i]

\* the second call has returned for a full manifest with a populated slot
\* and a gap, its second task having completed before its first
C18_SecondRunReturned ==
    /\ run = 2
    /\ pc = "checked"
    /\ N = MaxReleases
    /\ \E i \in DOMAIN umComparisons : ~umComparisons[i].nil
    /\ \E i \in DOMAIN umComparisons : umComparisons[i].nil
    /\ task[2].order < task[1].order

\* C19: when CheckForUpdates has returned a nil error every slot of
\* um.Comparisons is populated, and so HasUpdates, getColumnPaddings and the
\* report loop never meet a nil comparison: the program never panics.
C19_NoNilDereference ==
    /\ (pc \in {"checked", "paddings", "rows"} /\ retErr = NoError) =>
           \A i \in DOMAIN umComparisons : ~umComparisons[i].nil
    /\ exit # "panic"

====
